---- MODULE Spec2Model ----
(***************************************************************************)
(* tini (src/src/tini.c): a minimal init.  main() blocks every signal but  *)
(* the program-error ones, parses its arguments, forks and execs one main  *)
(* child, then loops: sigtimedwait (forwarding what is not SIGCHLD to the  *)
(* child), reap every zombie with waitpid(-1, WNOHANG), and return the     *)
(* main child's exit code once it is known.                                *)
(*                                                                         *)
(* The supervisor is one sequential process (pc).  Every system call is    *)
(* one step, so that the children, the orphans reparented to the           *)
(* supervisor and the senders of signals interleave between the calls.     *)
(* A system call's result is chosen among the outcomes its contract        *)
(* allows, failures included.                                              *)
(***************************************************************************)
EXTENDS Integers, Sequences, FiniteSets

\* ---------------------------------------------------------------- bounds
MaxPids == 2      \* process identifiers the kernel hands out: 1 .. MaxPids
MaxOrphans == 1   \* orphans reparented to the supervisor in one run
MaxSends == 1     \* signals sent to the supervisor from outside in one run
MaxOpts == 2      \* options on the command line
MaxArgs == 1      \* non-option arguments on the command line

\* ------------------------------------------------------ program constants
SIGINT == 2
SIGILL == 4
SIGTRAP == 5
SIGABRT == 6
SIGBUS == 7
SIGFPE == 8
SIGKILL == 9
SIGSEGV == 11
SIGTERM == 15
SIGCHLD == 17
SIGSYS == 31
NSIG == 31

AllSignals == 1..NSIG
Pids == 1..MaxPids
FirstPid == CHOOSE p \in Pids : \A q \in Pids : p <= q

\* int ignore_signals[] = {SIGFPE, SIGILL, SIGSEGV, SIGBUS, SIGABRT, SIGTRAP, SIGSYS}
ignore_signals == <<SIGFPE, SIGILL, SIGSEGV, SIGBUS, SIGABRT, SIGTRAP, SIGSYS>>

\* signals other processes send to the supervisor
ExtSignals == {SIGINT, SIGTERM}
\* signals that kill the main child without having been forwarded
KillSignals == {SIGKILL}
\* the codes the supervised program exits with
ExitCodes == {0, 7, 255}
\* the signal masks the supervisor may be started with
StartMasks == {{}, {SIGTERM}}

\* ------------------------------------------------------------ wait status
\* The status word of waitpid (sys/wait.h), as the kernel builds it.
W_EXITCODE(ret) == (ret % 256) * 256
W_TERMSIG(signo) == signo
W_STOPCODE(signo) == signo * 256 + 127

WIFEXITED(status) == status % 128 = 0
WEXITSTATUS(status) == (status \div 256) % 256
\* (a variant that takes every status but a normal exit for a death by signal)
WIFSIGNALED_not_exited(status) == (status % 128) # 0
WIFSIGNALED(status) == (status % 128) # 0 /\ (status % 128) # 127
WTERMSIG(status) == status % 128

\* int child_exitcode = -1: "This isn't a valid exitcode"
NO_EXITCODE == 0 - 1

VARIABLES
  pc,              \* where main() is
  opts,            \* the option characters getopt returns, in order ("h", "v", "?")
  nargs,           \* argc - optind: the arguments left after the options
  startmask,       \* the signal mask the supervisor was started with
  procmask,        \* the supervisor's signal mask
  parent_sigset,   \* main: sigset_t parent_sigset
  child_sigset,    \* main: sigset_t child_sigset
  captured,        \* child_sigset has been written by sigprocmask
  del_i,           \* prepare_sigmask: i
  verbosity,       \* static int verbosity
  child_pid,       \* main: pid_t child_pid (0: not assigned yet)
  child_exitcode,  \* main: int child_exitcode
  exit_code,       \* the supervisor's exit status (NO_EXITCODE while it runs)
  cause,           \* which return statement of main ended the run
  sig,             \* wait_and_forward_signal: sig.si_signo (0: none this iteration)
  pending,         \* signals pending for the supervisor
  procs,           \* the supervisor's children: pid -> [st, main, status]
  child,           \* the process fork created: [pc, mask, ret]
  delivered,       \* signals kill() delivered to the running main child
  last_kill,       \* the last kill() the supervisor made
  main_status,     \* the status word the main child terminated with (NO_EXITCODE: alive)
  main_reaped,     \* waitpid has collected the terminated main child
  fresh,           \* children that terminated since the last waitpid call
  nsent,           \* signals sent to the supervisor so far
  norph,           \* orphans reparented so far
  woke,            \* what sigtimedwait returned, until the reap pass begins
  wp,              \* what the last waitpid of this iteration returned
  sigchld_ignored  \* the supervisor was started with SIGCHLD set to SIG_IGN

vars == <<pc, opts, nargs, startmask, procmask, parent_sigset, child_sigset, captured,
          del_i, verbosity, child_pid, child_exitcode, exit_code, cause, sig, pending,
          procs, child, delivered, last_kill, main_status, main_reaped, fresh,
          nsent, norph, woke, wp, sigchld_ignored>>

\* groups, for UNCHANGED
inputs == <<opts, nargs, startmask, sigchld_ignored>>
masks == <<procmask, parent_sigset, child_sigset, captured, del_i>>
loopv == <<child_pid, child_exitcode, sig>>
world == <<pending, procs, child, delivered, main_status, fresh, nsent, norph>>
hist == <<last_kill, main_reaped>>
rets == <<woke, wp>>

Range(s) == {s[i] : i \in 1..Len(s)}

RECURSIVE SeqsUpTo(_, _)
SeqsUpTo(S, n) ==
  IF n = 0 THEN {<<>>}
  ELSE LET shorter == SeqsUpTo(S, n - 1)
       IN  shorter \cup {Append(s, x) : s \in {t \in shorter : Len(t) = n - 1}, x \in S}

NoProc == [st |-> "free", main |-> FALSE, status |-> 0]
NoChild == [pc |-> "none", mask |-> {}, ret |-> 0]
\* free(child_args_ptr): the argument vector is gone
FREED == 0 - 1

NoKill == [pid |-> 0, sig |-> 0, consumed |-> 0, main |-> FALSE, result |-> "none"]

\* the state main() starts in; ign: SIGCHLD is ignored, a disposition that execve
\* keeps, so that the children of this process are never kept as zombies
Start(ign) ==
  /\ pc = "sigfillset"
  /\ opts \in SeqsUpTo({"h", "v", "?"}, MaxOpts)
  /\ nargs \in 0..MaxArgs
  /\ startmask \in StartMasks
  /\ procmask = startmask
  /\ parent_sigset = {}
  /\ child_sigset = {}
  /\ captured = FALSE
  /\ del_i = 0
  /\ verbosity = 0
  /\ child_pid = 0
  /\ child_exitcode = NO_EXITCODE
  /\ exit_code = NO_EXITCODE
  /\ cause = "running"
  /\ sig = 0
  /\ pending = {}
  /\ procs = [p \in Pids |-> NoProc]
  /\ child = NoChild
  /\ delivered = {}
  /\ last_kill = NoKill
  /\ main_status = NO_EXITCODE
  /\ main_reaped = FALSE
  /\ fresh = {}
  /\ nsent = 0
  /\ norph = 0
  /\ woke = "none"
  /\ wp = "none"
  /\ sigchld_ignored = ign

\* the usual start: SIGCHLD has its default disposition
Init == Start(FALSE)

\* main: return <code>
Return(code, why) ==
  /\ pc' = "exited"
  /\ exit_code' = code
  /\ cause' = why

Running == pc # "exited"

\* ------------------------------------------------------- prepare_sigmask
\* what prepare_sigmask returns at its end
prepare_sigmask_ok == 0

\* (a variant in which a failed call is not reported to main)
prepare_sigmask_failed_unreported == prepare_sigmask_ok

\* what prepare_sigmask returns when one of its calls fails
prepare_sigmask_failed == 1

\* main: if (prepare_sigmask(&parent_sigset, &child_sigset)) { return 1; }
main_after_prepare_sigmask(ret) ==
  IF ret # 0
    THEN Return(1, "prepare_sigmask")
    ELSE pc' = "parse_args" /\ UNCHANGED <<exit_code, cause>>

\* sigfillset(parent_sigset_ptr)
prepare_sigmask_sigfillset ==
  /\ pc = "sigfillset"
  /\ \E ok \in BOOLEAN :
       IF ok
         THEN /\ parent_sigset' = AllSignals
              /\ del_i' = 1
              /\ pc' = "sigdelset"
              /\ UNCHANGED <<exit_code, cause>>
         ELSE /\ main_after_prepare_sigmask(prepare_sigmask_failed)
              /\ UNCHANGED <<parent_sigset, del_i>>
  /\ UNCHANGED <<inputs, procmask, child_sigset, captured, verbosity, loopv, world, hist, rets>>

\* for (i = 0; i < ARRAY_LEN(ignore_signals); i++) sigdelset(parent_sigset_ptr, ignore_signals[i])
prepare_sigmask_sigdelset ==
  /\ pc = "sigdelset"
  /\ \E ok \in BOOLEAN :
       IF ok
         THEN /\ parent_sigset' = parent_sigset \ {ignore_signals[del_i]}
              /\ del_i' = del_i + 1
              /\ pc' = IF del_i = Len(ignore_signals) THEN "sigprocmask" ELSE "sigdelset"
              /\ UNCHANGED <<exit_code, cause>>
         ELSE /\ main_after_prepare_sigmask(prepare_sigmask_failed)
              /\ UNCHANGED <<parent_sigset, del_i>>
  /\ UNCHANGED <<inputs, procmask, child_sigset, captured, verbosity, loopv, world, hist, rets>>

\* sigprocmask(SIG_SETMASK, parent_sigset_ptr, child_sigset_ptr)
prepare_sigmask_sigprocmask ==
  /\ pc = "sigprocmask"
  /\ \E ok \in BOOLEAN :
       IF ok
         THEN /\ child_sigset' = procmask
              /\ captured' = TRUE
              /\ procmask' = parent_sigset
              /\ main_after_prepare_sigmask(prepare_sigmask_ok)
         ELSE /\ main_after_prepare_sigmask(prepare_sigmask_failed)
              /\ UNCHANGED <<procmask, child_sigset, captured>>
  /\ UNCHANGED <<inputs, parent_sigset, del_i, verbosity, loopv, world, hist, rets>>

\* ------------------------------------------------------------ parse_args
\* main: int parse_exitcode = 1
parse_exitcode_default == 1

\* (a variant in which case 'h' leaves parse_exitcode as main set it)
help_exitcode_unset == parse_exitcode_default

\* *parse_fail_exitcode_ptr = 0, in case 'h'
help_exitcode == 0

\* the getopt loop from option k on, with verbosity v
RECURSIVE getopt_loop(_, _, _)
getopt_loop(os, k, v) ==
  IF k > Len(os) THEN [ret |-> 0, exitcode |-> parse_exitcode_default, verbosity |-> v]
  ELSE IF os[k] = "h" THEN [ret |-> 1, exitcode |-> help_exitcode, verbosity |-> v]
  ELSE IF os[k] = "v" THEN getopt_loop(os, k + 1, v + 1)
  ELSE [ret |-> 1, exitcode |-> parse_exitcode_default, verbosity |-> v]

\* (a variant without the test "if (i == 0)": no PROGRAM is not an error)
parse_args_result_without_program(os, n, calloc_ok) ==
  LET g == getopt_loop(os, 1, 0)
  IN  IF g.ret # 0 THEN g
      ELSE IF ~calloc_ok THEN [g EXCEPT !.ret = 1]
      ELSE g

\* parse_args(argc, argv, &child_args_ptr, &parse_exitcode)
parse_args_result(os, n, calloc_ok) ==
  LET g == getopt_loop(os, 1, 0)
  IN  IF g.ret # 0 THEN g
      ELSE IF ~calloc_ok THEN [g EXCEPT !.ret = 1]
      ELSE IF n = 0 THEN [g EXCEPT !.ret = 1]
      ELSE g

\* main: parse_args_ret = parse_args(...); if (parse_args_ret) { return parse_exitcode; }
parse_args ==
  /\ pc = "parse_args"
  /\ \E calloc_ok \in BOOLEAN :
       LET r == parse_args_result(opts, nargs, calloc_ok)
       IN  /\ verbosity' = r.verbosity
           /\ IF r.ret # 0
                THEN Return(r.exitcode, "parse_args")
                ELSE pc' = "spawn" /\ UNCHANGED <<exit_code, cause>>
  /\ UNCHANGED <<inputs, masks, loopv, world, hist, rets>>

\* ----------------------------------------------------------------- spawn
\* what spawn returns in the supervisor, after fork gave it the child's pid
spawn_parent_ok == 0

\* (a variant in which the new process reports success after a failure)
spawn_child_failed_unreported == spawn_parent_ok

\* what spawn returns in the new process when sigprocmask or execvp fails
spawn_child_failed == 1

\* main: if (spawn(&child_sigset, *child_args_ptr, &child_pid)) { return 1; }
\* in the supervisor
main_after_spawn(ret) ==
  IF ret # 0
    THEN Return(1, "spawn")
    ELSE pc' = "sigtimedwait" /\ UNCHANGED <<exit_code, cause>>

\* a child of the supervisor terminates, or stops under PTRACE_TRACEME: it becomes
\* collectable with status word w.  SIGCHLD is raised for the supervisor; a system
\* may discard a blocked signal whose action is to ignore it, which is SIGCHLD's
\* default action (notify = FALSE).
\* With SIGCHLD ignored a terminated child is not kept as a zombie and raises no
\* SIGCHLD: its pid is free at once.
BecomesCollectable(p, st, w, notify) ==
  IF sigchld_ignored /\ st = "zombie"
    THEN /\ procs' = [procs EXCEPT ![p] = NoProc]
         /\ UNCHANGED <<pending, fresh>>
    ELSE /\ procs' = [procs EXCEPT ![p].st = st, ![p].status = w]
         /\ pending' = IF notify /\ SIGCHLD \in procmask /\ ~sigchld_ignored
                          THEN pending \cup {SIGCHLD} ELSE pending
         /\ fresh' = fresh \cup {p}

\* pid = fork(), and the branches pid < 0 and pid > 0; then free(child_args_ptr)
spawn_fork ==
  /\ pc = "spawn"
  /\ \/ /\ main_after_spawn(1)
        /\ UNCHANGED <<child_pid, procs, child, nargs>>
     \/ \E p \in {FirstPid} :                       \* the first process created here
          /\ procs[p].st = "free"
          /\ procs' = [procs EXCEPT ![p] = [st |-> "run", main |-> TRUE, status |-> 0]]
          /\ child' = [pc |-> "sigprocmask", mask |-> procmask, ret |-> 0]
          /\ child_pid' = p
          /\ nargs' = FREED
          /\ main_after_spawn(spawn_parent_ok)
  /\ UNCHANGED <<opts, startmask, sigchld_ignored, masks, verbosity, child_exitcode, sig,
                 pending, delivered, main_status, fresh, nsent, norph, hist, rets>>

\* the branch pid == 0: sigprocmask(SIG_SETMASK, child_sigset_ptr, NULL)
spawn_child_sigprocmask ==
  /\ Running
  /\ child.pc = "sigprocmask"
  /\ \E ok \in BOOLEAN :
       child' = IF ok THEN [child EXCEPT !.pc = "execvp", !.mask = child_sigset]
                      ELSE [child EXCEPT !.pc = "returned", !.ret = spawn_child_failed]
  /\ UNCHANGED <<pc, exit_code, cause, inputs, masks, verbosity, loopv, pending, procs,
                 delivered, main_status, fresh, nsent, norph, hist, rets>>

\* the branch pid == 0: execvp(argv[0], argv)
spawn_child_execvp ==
  /\ Running
  /\ child.pc = "execvp"
  /\ \E ok \in BOOLEAN :
       child' = IF ok THEN [child EXCEPT !.pc = "program"]
                      ELSE [child EXCEPT !.pc = "returned", !.ret = spawn_child_failed]
  /\ UNCHANGED <<pc, exit_code, cause, inputs, masks, verbosity, loopv, pending, procs,
                 delivered, main_status, fresh, nsent, norph, hist, rets>>

\* main: if (spawn(...)) { return 1; }, in the new process, where spawn has returned
spawn_child_main_returns ==
  /\ Running
  /\ child.pc = "returned"
  /\ IF child.ret # 0
       THEN /\ \E notify \in BOOLEAN :
                 BecomesCollectable(child_pid, "zombie", W_EXITCODE(1), notify)
            /\ child' = [child EXCEPT !.pc = "dead"]
            /\ main_status' = W_EXITCODE(1)
       ELSE /\ child' = [child EXCEPT !.pc = "loop"]
            /\ UNCHANGED <<procs, pending, fresh, main_status>>
  /\ UNCHANGED <<pc, exit_code, cause, inputs, masks, verbosity, loopv, delivered,
                 nsent, norph, hist, rets>>

\* ------------------------------------------------- wait_and_forward_signal
\* (a variant of the switch without case SIGCHLD)
forwarded_without_case(signo) == signo \in AllSignals

\* switch (sig.si_signo): case SIGCHLD is not forwarded, default is
forwarded(signo) == signo # SIGCHLD

\* (a variant that sends SIGTERM whatever was received)
kill_args_always_term(cpid, signo) == [pid |-> cpid, sig |-> SIGTERM]

\* kill(child_pid, sig.si_signo)
kill_args(cpid, signo) == [pid |-> cpid, sig |-> signo]

\* (a variant of the loop that skips reap_zombies after the wait)
main_after_wait_skips_reap(ret) ==
  IF ret # 0
    THEN Return(1, "wait_and_forward_signal")
    ELSE pc' = "check" /\ UNCHANGED <<exit_code, cause>>

\* main: if (wait_and_forward_signal(&parent_sigset, child_pid)) { return 1; }
main_after_wait(ret) ==
  IF ret # 0
    THEN Return(1, "wait_and_forward_signal")
    ELSE pc' = "waitpid" /\ UNCHANGED <<exit_code, cause>>

\* (a variant that waits for SIGCHLD alone)
wait_set_only_sigchld(set) == set \cap {SIGCHLD}

\* sigtimedwait(parent_sigset_ptr, &sig, &ts): the signals waited for
wait_set(set) == set

\* (a variant of the switch without case EINTR)
sigtimedwait_errno_ret_without_eintr(errno) == IF errno = "EAGAIN" THEN 0 ELSE 1

\* switch (errno) after sigtimedwait returned -1: what wait_and_forward_signal returns
sigtimedwait_errno_ret(errno) == IF errno \in {"EAGAIN", "EINTR"} THEN 0 ELSE 1

\* sigtimedwait(parent_sigset_ptr, &sig, &ts) and the two switches on its result.
\* A signal of the set that is pending is returned at once; the call times out
\* (EAGAIN) or is interrupted (EINTR) only when none is.
sigtimedwait ==
  /\ pc = "sigtimedwait"
  /\ \/ \E s \in pending \cap wait_set(parent_sigset) :     \* a signal is taken
          /\ pending' = pending \ {s}
          /\ IF forwarded(s)
               THEN /\ sig' = s /\ woke' = "signal" /\ pc' = "kill"
                    /\ UNCHANGED <<exit_code, cause>>
               ELSE /\ sig' = 0 /\ woke' = "SIGCHLD"
                    /\ main_after_wait(0)
     \/ /\ pending \cap wait_set(parent_sigset) = {}
        /\ \E errno \in {"EAGAIN", "EINTR"} :
             /\ woke' = errno
             /\ main_after_wait(sigtimedwait_errno_ret(errno))
        /\ UNCHANGED <<pending, sig>>
     \/ /\ woke' = "EINVAL"                                 \* any other errno
        /\ main_after_wait(sigtimedwait_errno_ret("EINVAL"))
        /\ UNCHANGED <<pending, sig>>
  /\ UNCHANGED <<inputs, masks, verbosity, child_pid, child_exitcode, procs, child,
                 delivered, main_status, fresh, nsent, norph, hist, wp>>

\* execvp succeeded: the supervised program runs, or has run
ProgramRan == child.pc \in {"program", "stopped"} \/ (child.pc = "dead" /\ child.ret = 0)

ChildAlive == child.pc \in {"sigprocmask", "execvp", "returned", "program", "loop"}

\* (a variant without the test for ESRCH: every failure of kill is fatal)
kill_errno_ret_always_fatal(errno) == IF errno = "none" THEN 0 ELSE 1

\* if (kill(child_pid, sig.si_signo)) { if (errno == ESRCH) warning; else fatal }:
\* what wait_and_forward_signal returns
kill_errno_ret(errno) == IF errno = "ESRCH" THEN 0 ELSE 1

\* kill(child_pid, sig.si_signo) and the test of errno
forward_kill ==
  /\ pc = "kill"
  /\ LET a == kill_args(child_pid, sig)
         exists == a.pid \in Pids /\ procs[a.pid].st # "free"
         tomain == exists /\ procs[a.pid].main
     IN  \/ /\ exists                                \* delivered
            /\ last_kill' = [pid |-> a.pid, sig |-> a.sig, consumed |-> sig,
                            main |-> tomain, result |-> "ok"]
            /\ delivered' = IF tomain /\ ChildAlive /\ procs[a.pid].st = "run"
                              THEN delivered \cup {a.sig} ELSE delivered
            /\ main_after_wait(0)
         \/ /\ ~exists                               \* ESRCH: a warning
            /\ last_kill' = [pid |-> a.pid, sig |-> a.sig, consumed |-> sig,
                            main |-> FALSE, result |-> "ESRCH"]
            /\ main_after_wait(kill_errno_ret("ESRCH"))
            /\ UNCHANGED delivered
         \/ /\ exists                                \* any other errno (EPERM)
            /\ last_kill' = [pid |-> a.pid, sig |-> a.sig, consumed |-> sig,
                            main |-> tomain, result |-> "error"]
            /\ main_after_wait(kill_errno_ret("EPERM"))
            /\ UNCHANGED delivered
  /\ sig' = 0
  /\ UNCHANGED <<inputs, masks, verbosity, child_pid, child_exitcode, pending, procs, child,
                 main_status, main_reaped, fresh, nsent, norph, rets>>

\* ----------------------------------------------------------- reap_zombies
\* the exit code of a main child that exited or was killed by a signal
main_exitcode(status) ==
  IF WIFEXITED(status) THEN WEXITSTATUS(status) ELSE 128 + WTERMSIG(status)

\* current_pid == child_pid
is_main_child(current_pid, cpid) == current_pid = cpid

\* (a variant that ends the pass once the main child is collected)
after_collect_stops_at_main(current_pid, cpid) ==
  IF current_pid = cpid THEN "check" ELSE "waitpid"

\* "Check if other childs have been reaped": continue, after any collected child
after_collect(current_pid, cpid) == "waitpid"

\* main: if (reap_zombies(child_pid, &child_exitcode)) { return 1; }
main_after_reap(ret) ==
  IF ret # 0
    THEN Return(1, "reap_zombies")
    ELSE pc' = "check" /\ UNCHANGED <<exit_code, cause>>

\* (a variant without the test for ECHILD: every failure of waitpid is fatal)
waitpid_errno_ret_always_fatal(errno) == IF errno = "none" THEN 0 ELSE 1

\* case -1: if (errno == ECHILD) break; else fatal: what reap_zombies returns
waitpid_errno_ret(errno) == IF errno = "ECHILD" THEN 0 ELSE 1

Collectable == {p \in Pids : procs[p].st \in {"zombie", "stop"}}
Children == {p \in Pids : procs[p].st # "free"}
Zombies == {p \in Pids : procs[p].st = "zombie"}

\* current_pid = waitpid(-1, &current_status, WNOHANG) and the switch on it
reap_waitpid ==
  /\ pc = "waitpid"
  /\ fresh' = {}
  /\ woke' = "none"
  /\ \/ \E p \in Collectable :                       \* default: a child was collected
          LET status == procs[p].status
          IN  /\ procs' = [procs EXCEPT ![p] = IF procs[p].st = "zombie" THEN NoProc
                                               ELSE [procs[p] EXCEPT !.st = "run"]]
              /\ main_reaped' = (main_reaped \/ (procs[p].main /\ procs[p].st = "zombie"))
              /\ IF is_main_child(p, child_pid)
                   THEN IF WIFEXITED(status) \/ WIFSIGNALED(status)
                          THEN /\ child_exitcode' = main_exitcode(status)
                               /\ pc' = after_collect(p, child_pid)
                               /\ UNCHANGED <<exit_code, cause>>
                          ELSE /\ main_after_reap(1)
                               /\ UNCHANGED child_exitcode
                   ELSE /\ pc' = after_collect(p, child_pid)
                        /\ UNCHANGED <<child_exitcode, exit_code, cause>>
              /\ wp' = "pid"
     \/ /\ Collectable = {}
        /\ IF Children = {}
             THEN wp' = "ECHILD" /\ main_after_reap(waitpid_errno_ret("ECHILD"))  \* case -1
             ELSE wp' = "0" /\ main_after_reap(0)                                 \* case 0
        /\ UNCHANGED <<procs, main_reaped, child_exitcode>>
     \/ /\ wp' = "EINVAL"                             \* -1 with any other errno
        /\ main_after_reap(waitpid_errno_ret("EINVAL"))
        /\ UNCHANGED <<procs, main_reaped, child_exitcode>>
  /\ UNCHANGED <<inputs, masks, verbosity, child_pid, sig, pending, child, delivered,
                 main_status, nsent, norph, last_kill>>

\* (a variant that tests child_exitcode > 0)
loop_ends_if_positive(exitcode) == exitcode > 0

\* main: if (child_exitcode != -1)
loop_ends(exitcode) == exitcode # NO_EXITCODE

\* main: if (child_exitcode != -1) { return child_exitcode; }, else the next iteration
main_check ==
  /\ pc = "check"
  /\ IF loop_ends(child_exitcode)
       THEN Return(child_exitcode, "child_exitcode")
       ELSE pc' = "sigtimedwait" /\ UNCHANGED <<exit_code, cause>>
  /\ wp' = "none"
  /\ UNCHANGED <<inputs, masks, verbosity, loopv, world, hist, woke>>

\* ------------------------------------------------------------ environment
\* the supervised program exits
child_exits ==
  /\ Running
  /\ child.pc = "program"
  /\ \E k \in ExitCodes, notify \in BOOLEAN :
       /\ BecomesCollectable(child_pid, "zombie", W_EXITCODE(k), notify)
       /\ main_status' = W_EXITCODE(k)
  /\ child' = [child EXCEPT !.pc = "dead"]
  /\ UNCHANGED <<pc, exit_code, cause, inputs, masks, verbosity, loopv, delivered,
                 nsent, norph, hist, rets>>

\* the supervised program is killed by a signal: one the supervisor forwarded to it,
\* or one sent to it directly
child_killed ==
  /\ Running
  /\ child.pc = "program"
  /\ \E n \in delivered \cup KillSignals, notify \in BOOLEAN :
       /\ BecomesCollectable(child_pid, "zombie", W_TERMSIG(n), notify)
       /\ main_status' = W_TERMSIG(n)
  /\ child' = [child EXCEPT !.pc = "dead"]
  /\ UNCHANGED <<pc, exit_code, cause, inputs, masks, verbosity, loopv, delivered,
                 nsent, norph, hist, rets>>

\* the supervised program made its parent its tracer (PTRACE_TRACEME) and stops:
\* waitpid reports a stopped child even without WUNTRACED
child_traced_stop ==
  /\ Running
  /\ child.pc = "program"
  /\ \E notify \in BOOLEAN :
       BecomesCollectable(child_pid, "stop", W_STOPCODE(SIGTRAP), notify)
  /\ child' = [child EXCEPT !.pc = "stopped"]
  /\ UNCHANGED <<pc, exit_code, cause, inputs, masks, verbosity, loopv, delivered,
                 main_status, nsent, norph, hist, rets>>

\* a descendant of the supervised program loses its parent and is reparented
orphan_reparented ==
  /\ Running
  /\ ProgramRan
  /\ norph < MaxOrphans
  /\ norph' = norph + 1
  /\ \E p \in Pids :
       /\ procs[p].st = "free"
       /\ procs' = [procs EXCEPT ![p] = [st |-> "run", main |-> FALSE, status |-> 0]]
  /\ UNCHANGED <<pc, exit_code, cause, inputs, masks, verbosity, loopv, pending, child,
                 delivered, main_status, fresh, nsent, hist, rets>>

OrphanStatuses == {W_EXITCODE(0), W_TERMSIG(SIGKILL)}

\* an orphan terminates
orphan_terminates ==
  /\ Running
  /\ \E p \in Pids, w \in OrphanStatuses, notify \in BOOLEAN :
       /\ procs[p].st = "run"
       /\ ~procs[p].main
       /\ BecomesCollectable(p, "zombie", w, notify)
  /\ UNCHANGED <<pc, exit_code, cause, inputs, masks, verbosity, loopv, child, delivered,
                 main_status, nsent, norph, hist, rets>>

\* another process sends the supervisor a signal that the supervisor blocks
signal_sent ==
  /\ Running
  /\ nsent < MaxSends
  /\ nsent' = nsent + 1
  /\ \E s \in ExtSignals :
       /\ s \in procmask
       /\ pending' = pending \cup {s}
  /\ UNCHANGED <<pc, exit_code, cause, inputs, masks, verbosity, loopv, procs, child,
                 delivered, main_status, fresh, norph, hist, rets>>

\* ---------------------------------------------------------- specification
Supervisor ==
  \/ prepare_sigmask_sigfillset
  \/ prepare_sigmask_sigdelset
  \/ prepare_sigmask_sigprocmask
  \/ parse_args
  \/ spawn_fork
  \/ sigtimedwait
  \/ forward_kill
  \/ reap_waitpid
  \/ main_check

Environment ==
  \/ spawn_child_sigprocmask
  \/ spawn_child_execvp
  \/ spawn_child_main_returns
  \/ child_exits
  \/ child_killed
  \/ child_traced_stop
  \/ orphan_reparented
  \/ orphan_terminates
  \/ signal_sent

Next == Supervisor \/ Environment

Spec == Init /\ [][Next]_vars

\* The runs of "tini PROGRAM [ARGS]", without options.  An option either ends the run
\* in parse_args or raises verbosity, which only selects the messages printed.
InitNoOptions == Init /\ opts = <<>>

\* the runs of a supervisor started with SIGCHLD ignored
SpecSigchldIgnored == Start(TRUE) /\ [][Next]_vars

\* the supervisor is a running process: it is scheduled as long as it has not exited
FairSpec == InitNoOptions /\ [][Next]_vars /\ WF_vars(Supervisor)

TypeOK ==
  /\ pc \in {"sigfillset", "sigdelset", "sigprocmask", "parse_args", "spawn",
             "sigtimedwait", "kill", "waitpid", "check", "exited"}
  /\ child_pid \in Pids \cup {0}
  /\ child_exitcode \in {NO_EXITCODE} \cup 0..255
  /\ exit_code \in {NO_EXITCODE} \cup 0..255
  /\ pending \subseteq AllSignals
  /\ procmask \subseteq AllSignals
  /\ nargs \in {FREED} \cup 0..MaxArgs
  /\ woke \in {"none", "signal", "SIGCHLD", "EAGAIN", "EINTR", "EINVAL"}
  /\ wp \in {"none", "pid", "0", "ECHILD", "EINVAL"}
  /\ sigchld_ignored \in BOOLEAN

\* ================================================================= claims
ParentMask == AllSignals \ Range(ignore_signals)
Exited == pc = "exited"
MainExitedNormally == main_status # NO_EXITCODE /\ WIFEXITED(main_status)
MainKilledBySignal == main_status # NO_EXITCODE /\ WIFSIGNALED(main_status)

\* C1: in every run in which the main child is reaped, a main child that exited with
\* code K makes the supervisor exit with K, and a main child killed by signal N makes
\* it exit with 128 + N.  (Stated for the runs that end in main's return of
\* child_exitcode; the runs that end in a fatal return after the reap break it too.)
C1_ExitCodeIsChildOutcome ==
  (Exited /\ cause = "child_exitcode" /\ main_reaped) =>
     /\ MainExitedNormally => exit_code = WEXITSTATUS(main_status)
     /\ MainKilledBySignal => exit_code = 128 + WTERMSIG(main_status)

\* C2: when the supervisor has terminated, its exit code equals ExitOutcome
\* (child_exitcode) if and only if ExitOutcome is set, and an exit through any of the
\* fatal returns finds ExitOutcome unset.
C2_ExitCodeIffOutcomeSet ==
  Exited =>
     /\ (exit_code = child_exitcode) <=> (child_exitcode # NO_EXITCODE)
     /\ cause # "child_exitcode" => child_exitcode = NO_EXITCODE

\* C3: ExitOutcome is written at most once: once child_exitcode is set, no step
\* changes its value.
C3_OutcomeNeverOverwritten ==
  [][child_exitcode # NO_EXITCODE => child_exitcode' = child_exitcode]_vars

C5_NoZombieAtExit == (Exited /\ cause = "child_exitcode") => Zombies = {}

\* C5 amended: a reap pass ends only after a check that finds nothing to collect, so
\* when a pass has ended, and when the supervisor exits with the child's outcome, the
\* zombies left are children that terminated after that last check; and every zombie
\* is eventually collected unless the supervisor exits first.
C5_ReapsEveryDescendant ==
  /\ []((pc = "check" \/ (Exited /\ cause = "child_exitcode")) => Zombies \subseteq fresh)
  /\ \A p \in Pids :
       (procs[p].st = "zombie") ~> (procs[p].st # "zombie" \/ Exited)

\* C5 witness: the supervisor exits with the child's outcome after an orphan was
\* reparented to it, and every child it ever had has been collected.
C5_Witness ==
  /\ Exited
  /\ cause = "child_exitcode"
  /\ norph > 0
  /\ Children = {}

\* C6: when the main child has terminated and no fatal error occurred, the
\* supervisor exits with the main child's outcome.
C6_ExitsWithChildOutcome ==
  (Exited /\ cause = "child_exitcode" /\ main_status # NO_EXITCODE) =>
     exit_code = main_exitcode(main_status)

\* C6, the termination half alone: once the main child has terminated the supervisor
\* leaves its loop, whether or not it ever takes a SIGCHLD.
C6_LeavesLoop == (main_status # NO_EXITCODE) ~> Exited

\* C7: when the main child dies from a signal N that the supervisor forwarded to it
\* and its death is reaped, the supervisor exits with 128 + N.  (The second half of
\* the claim, stated for the runs that end in main's return of child_exitcode.)
C7_ForwardedDeathExitCode ==
  (Exited /\ cause = "child_exitcode" /\ main_reaped /\ MainKilledBySignal
     /\ WTERMSIG(main_status) \in delivered) =>
     exit_code = 128 + WTERMSIG(main_status)

\* C8: the new process has the mask of child_sigset when its image is replaced, and
\* after a failed sigprocmask or execvp it terminates with a non-zero status and never
\* enters the supervision loop.
C8_ChildNeverSupervises ==
  /\ child.pc = "program" => (captured /\ child.mask = child_sigset /\ child.mask = startmask)
  /\ child.pc # "loop"
  /\ child.pc = "returned" => child.ret # 0
  /\ (child.pc = "dead" /\ child.ret # 0) =>
        (WIFEXITED(main_status) /\ WEXITSTATUS(main_status) # 0)

\* C8 witness: execvp failed after the mask was restored, and the new process has
\* terminated.
C8_Witness ==
  /\ child.pc = "dead"
  /\ child.ret # 0
  /\ child.mask = child_sigset

\* C9: a failed step of the mask setup makes the supervisor exit with 1 before any
\* child exists, and main goes past the setup, and a child exists, only with
\* parent_sigset installed and child_sigset captured.
C9_MaskBeforeSpawn ==
  /\ cause = "prepare_sigmask" =>
        (exit_code = 1 /\ child_pid = 0 /\ Children = {} /\ child.pc = "none")
  /\ (pc \in {"parse_args", "spawn", "sigtimedwait", "kill", "waitpid", "check"}
        \/ child.pc # "none" \/ child_pid # 0) =>
        /\ captured
        /\ procmask = ParentMask
        /\ parent_sigset = ParentMask
        /\ child_sigset = startmask

\* C9 witness: the setup failed after part of parent_sigset had been built.
C9_Witness ==
  /\ Exited
  /\ cause = "prepare_sigmask"
  /\ parent_sigset # {}
  /\ parent_sigset # AllSignals

HelpGiven == "h" \in Range(opts)
\* getopt returns 'h' before any '?'
HelpReached ==
  \E i \in 1..Len(opts) : opts[i] = "h" /\ \A j \in 1..(i - 1) : opts[j] = "v"

\* C10 as stated: whenever the help flag is given the supervisor exits with 0 and
\* spawns no child.  (Stated for the runs that get as far as parse_args; a failed
\* mask setup exits with 1 whatever the arguments.)
C10_HelpExitsZero ==
  (HelpGiven /\ Exited /\ cause = "parse_args") => (exit_code = 0 /\ child_pid = 0)

\* C10 amended: whenever the help flag is given no child is spawned; the supervisor
\* exits with 0 when the mask setup succeeded and getopt returns the help flag before
\* any unknown option, and with 1 otherwise.
C10_HelpNoChild ==
  HelpGiven =>
     /\ child_pid = 0 /\ Children = {} /\ child.pc = "none"
     /\ pc \in {"sigfillset", "sigdelset", "sigprocmask", "parse_args", "exited"}
     /\ Exited => exit_code = (IF cause = "parse_args" /\ HelpReached THEN 0 ELSE 1)

\* C10 witness: -v -h, which exits with 0.
C10_Witness ==
  /\ Exited
  /\ opts = <<"v", "h">>
  /\ exit_code = 0

\* ------------------------------------------------------------------ C11
UnknownGiven == "?" \in Range(opts)
NoProgram == nargs = 0

\* C11 as stated: an invocation with an unknown option, or with no PROGRAM, exits
\* with 1 and spawns no child.
C11_UsageErrorExitsOne ==
  ((UnknownGiven \/ NoProgram) /\ Exited) => (exit_code = 1 /\ child_pid = 0)

\* C11 amended: an invocation with an unknown option, or with no PROGRAM, never spawns
\* a child; it exits with 1, except that it exits with 0 when the mask setup succeeded
\* and getopt returns the help flag before any unknown option.
C11_UsageErrorNoChild ==
  (UnknownGiven \/ NoProgram) =>
     /\ child_pid = 0 /\ Children = {} /\ child.pc = "none"
     /\ pc \in {"sigfillset", "sigdelset", "sigprocmask", "parse_args", "exited"}
     /\ Exited => exit_code = (IF cause = "parse_args" /\ HelpReached THEN 0 ELSE 1)

\* C11 witness: -v with no PROGRAM, refused by parse_args with code 1.
C11_Witness ==
  /\ Exited
  /\ opts = <<"v">>
  /\ NoProgram
  /\ cause = "parse_args"
  /\ exit_code = 1

\* ------------------------------------------------------------------ C12
\* C12: the step that calls kill(): when kill fails with ESRCH the supervisor does not
\* exit and goes on to the reap step of the same iteration; when kill fails with any
\* other errno the supervisor exits with 1.
C12_ForwardFailure ==
  [][(pc = "kill" /\ pc' # "kill") =>
       /\ last_kill'.result = "ESRCH" =>
            (pc' = "waitpid" /\ exit_code' = NO_EXITCODE /\ cause' = "running")
       /\ last_kill'.result = "error" =>
            (pc' = "exited" /\ exit_code' = 1 /\ cause' = "wait_and_forward_signal")]_vars

\* C12 witness: a kill() that failed with ESRCH, the supervisor about to reap.
C12_Witness ==
  /\ last_kill.result = "ESRCH"
  /\ last_kill.pid = child_pid
  /\ pc = "waitpid"
  /\ exit_code = NO_EXITCODE

\* ------------------------------------------------------------------ C13
\* C13: the order of the steps of an iteration.  The wait step is entered only from
\* spawn or from the check that ends an iteration; it is left for kill(), for the reap
\* step or by a fatal return; kill() is left for the reap step or by a fatal return;
\* a consumed SIGCHLD leads to the reap step; and the check is reached only from a
\* waitpid that found nothing left to collect, so the pass drained what there was
\* before the supervisor waits again.
C13_WaitThenDrain ==
  [][/\ (pc' = "sigtimedwait" /\ pc # "sigtimedwait") => pc \in {"spawn", "check"}
     /\ (pc = "sigtimedwait" /\ pc' # "sigtimedwait") => pc' \in {"kill", "waitpid", "exited"}
     /\ (pc = "sigtimedwait" /\ woke' = "SIGCHLD") => pc' = "waitpid"
     /\ (pc = "kill" /\ pc' # "kill") => pc' \in {"waitpid", "exited"}
     /\ (pc = "waitpid" /\ pc' # "waitpid") => pc' \in {"check", "exited"}
     /\ (pc' = "check" /\ pc # "check") =>
          (pc = "waitpid" /\ Collectable = {} /\ wp' \in {"0", "ECHILD"})]_vars

\* C13 witness: SIGCHLD has just been consumed and the reap step, with a terminated
\* child to collect, comes next.
C13_Witness ==
  /\ woke = "SIGCHLD"
  /\ pc = "waitpid"
  /\ Zombies # {}

\* ------------------------------------------------------------------ C14
\* C14: SIGCHLD is never passed to kill(): the supervisor is never about to forward
\* it, no kill() it made sent it or followed its consumption, and a wait step that
\* consumed it goes straight to the reap step.
C14_SigchldNotForwarded ==
  /\ pc = "kill" => (sig # SIGCHLD /\ woke # "SIGCHLD")
  /\ last_kill.result # "none" => (last_kill.sig # SIGCHLD /\ last_kill.consumed # SIGCHLD)
  /\ SIGCHLD \notin delivered
  /\ woke = "SIGCHLD" => (pc = "waitpid" /\ sig = 0)

\* C14 witness: the SIGCHLD of an orphan's death was consumed while the supervised
\* program runs, and nothing has been sent to the program.
C14_Witness ==
  /\ woke = "SIGCHLD"
  /\ child.pc = "program"
  /\ last_kill = NoKill
  /\ delivered = {}

\* ------------------------------------------------------------------ C15
\* the steps of main after prepare_sigmask succeeded
MaskIsSet == pc \in {"parse_args", "spawn", "sigtimedwait", "kill", "waitpid", "check"}

\* C15 as stated, its last part left aside: a signal that is pending when a wait call
\* starts is consumed by that or a later wait step.  (Runs that end by a fatal error
\* are not held against the claim.)
C15_ConsumedByLaterWait ==
  \A s \in ExtSignals :
    (pc = "sigtimedwait" /\ s \in pending)
       ~> (s \notin pending \/ (Exited /\ cause # "child_exitcode"))

\* C15 amended: from the mask setup on the supervisor blocks ParentMask; a pending
\* signal leaves the pending set only in a wait step, one signal of ParentMask at a
\* time; and a pending signal is consumed by a later wait step unless the supervisor
\* exits first.
C15_PendingUntilWaitOrExit ==
  /\ [](MaskIsSet => procmask = ParentMask)
  /\ [][(pending \ pending' # {}) =>
          /\ pc = "sigtimedwait"
          /\ Cardinality(pending \ pending') = 1
          /\ (pending \ pending') \subseteq ParentMask]_vars
  /\ \A s \in ExtSignals \cup {SIGCHLD} :
       (s \in pending) ~> (s \notin pending \/ Exited)

\* C15 witness: a signal sent from outside is pending while the supervisor is in its
\* reap step, the supervised program running.
C15_Witness ==
  /\ pc = "waitpid"
  /\ pending \cap ExtSignals # {}
  /\ child.pc = "program"

\* ------------------------------------------------------------------ C16
\* C16: a waitpid call made when no child is collectable, and that does not fail with
\* an errno of its own, returns 0 (children exist) or fails with ECHILD (none does);
\* the pass ends there without an error and has changed nothing but the position of
\* main: no child is collected, child_exitcode and the pending signals are as they
\* were, nothing is sent.  A repeated pass starts from the same state.
C16_EmptyReapIsNoOp ==
  [][(pc = "waitpid" /\ pc' # "waitpid" /\ Collectable = {} /\ wp' # "EINVAL") =>
       /\ wp' = (IF Children = {} THEN "ECHILD" ELSE "0")
       /\ pc' = "check"
       /\ UNCHANGED <<procs, child_pid, child_exitcode, exit_code, cause, pending,
                      main_reaped, last_kill, delivered, procmask>>]_vars

\* C16 witness: a pass that found the supervised program running and nothing to
\* collect has ended; child_exitcode is unset.
C16_Witness ==
  /\ pc = "check"
  /\ wp = "0"
  /\ child.pc = "program"
  /\ child_exitcode = NO_EXITCODE
  /\ ~main_reaped

\* ------------------------------------------------------------------ C17
\* waitpid has reported the main child with a status that is neither WIFEXITED nor
\* WIFSIGNALED: the stop of a traced child
MainOtherStatusCollected ==
  /\ child.pc = "stopped"
  /\ child_pid \in Pids
  /\ procs[child_pid].st = "run"

\* C17: once waitpid has reported the main child with a status that is neither a
\* normal exit nor a death by signal, the supervisor has exited with 1, from
\* reap_zombies, and child_exitcode was never set.
C17_OtherStatusIsFatal ==
  MainOtherStatusCollected =>
     /\ Exited
     /\ exit_code = 1
     /\ cause = "reap_zombies"
     /\ child_exitcode = NO_EXITCODE
     /\ ~main_reaped

\* C17 witness: the traced main child's stop was collected and the supervisor exited.
C17_Witness ==
  /\ MainOtherStatusCollected
  /\ Exited
  /\ wp = "pid"

\* ------------------------------------------------------------------ C18
\* C18: a wait step that ends with EAGAIN (the timeout) or EINTR sends nothing,
\* consumes nothing and reports no error: main goes on to the reap step; and the check
\* that ends an iteration with child_exitcode unset leads to the next wait step.
C18_TimeoutIsQuiet ==
  [][/\ (pc = "sigtimedwait" /\ woke' \in {"EAGAIN", "EINTR"}) =>
          /\ pc' = "waitpid"
          /\ UNCHANGED <<last_kill, delivered, sig, pending, exit_code, cause,
                         child_exitcode, procs>>
     /\ (pc = "check" /\ pc' # "check" /\ child_exitcode = NO_EXITCODE) =>
          (pc' = "sigtimedwait" /\ exit_code' = NO_EXITCODE)]_vars

\* C18 witness: the wait ended with EINTR while the supervised program runs; the reap
\* step is next and no kill() has been made.
C18_Witness ==
  /\ woke = "EINTR"
  /\ pc = "waitpid"
  /\ child.pc = "program"
  /\ last_kill = NoKill

\* ------------------------------------------------------------------ C19
\* child_pid denotes the process fork created: running, stopped, or a zombie that
\* waitpid has not collected
ChildPidIsMainChild ==
  /\ child_pid \in Pids
  /\ procs[child_pid].st # "free"
  /\ procs[child_pid].main
  /\ ~main_reaped

C20_DrainsAfterMainChild ==
  /\ [][/\ (pc = "waitpid" /\ child_exitcode' # child_exitcode) => pc' = "waitpid"
        /\ (pc = "waitpid" /\ pc' = "check") => (Zombies = {} /\ Zombies' = {})
        /\ (pc' = "exited" /\ pc # "exited" /\ cause' = "child_exitcode") =>
             (pc = "check" /\ exit_code' = child_exitcode)]_vars
  /\ []((Exited /\ cause = "child_exitcode") => \A z \in Zombies : z \in fresh)

\* C20 witness: the main child has been collected in this pass while another child was
\* already a zombie; the pass goes on with that zombie still to collect.
C20_Witness ==
  /\ pc = "waitpid"
  /\ wp = "pid"
  /\ main_reaped
  /\ child_exitcode # NO_EXITCODE
  /\ \E z \in Zombies : z \notin fresh

====
